---------------------------- MODULE Spec2Model ----------------------------
(***************************************************************************)
(* A model of the NachOS file system layer of code/filesys/filesys.cc:     *)
(* the on-disk free map, file headers and directory tables, path           *)
(* resolution (GoDirectory), Create / Remove / Open / Close / Read /       *)
(* Write, and the system-wide descriptor table.                            *)
(*                                                                         *)
(* The disk is modelled by three images: the free map (one bit per         *)
(* sector), the file header stored at each sector, and the directory       *)
(* table held by the file whose header is at a sector.  Sizes are counted  *)
(* in bytes; the device is scaled down (NumSectors, SectorSize,            *)
(* DirEntrySize, NumDirEntries are small).                                 *)
(*                                                                         *)
(* PersistentBitmap, FileHeader, Directory and OpenFile are not part of    *)
(* filesys.cc; their operations are modelled from the specification.       *)
(* A name is the sequence of its characters, so that IsDir and             *)
(* PreprocessPath work on characters as the code does.                     *)
(***************************************************************************)
EXTENDS Integers, Sequences, FiniteSets, Bags, TLC

(* ---------------------------- bounds ---------------------------------- *)
NumSectors == 9
SectorSize == 2
DirEntrySize == 1
NumDirEntries == 2
SYS_MAX_OPEN_FILE_NUM == 5
MaxHandles == 4
MaxOps == 4

(* ------------------------ program constants --------------------------- *)
FreeMapSector == 0
DirectorySector == 1
BitsInByte == 8

FreeMapFileSize == NumSectors \div BitsInByte
DirectoryFileSize == DirEntrySize * NumDirEntries

Sectors == 0 .. (NumSectors - 1)
NoSector == 0 - 1

(* ------------------------------ names --------------------------------- *)
Slash == "/"
RootName == <<"/">>
DirD == <<"d", "/">>
FileF == <<"f">>
FileG == <<"g">>
\* the absolute paths the operations are called with:
\* /d/  /f  /g  /d/d/  /d/f  /d/d/f
Paths == {RootName \o DirD, RootName \o FileF, RootName \o FileG,
          RootName \o DirD \o DirD, RootName \o DirD \o FileF,
          RootName \o DirD \o DirD \o FileF}
\* the sizes Create is called with
Sizes == {0, DirectoryFileSize, SectorSize + 1}

IsDir(name) == name[Len(name)] = Slash

\* the components of a path, each keeping its trailing separator
RECURSIVE SplitPath(_, _, _)
SplitPath(path, i, cur) ==
    IF i > Len(path) THEN <<>>
    ELSE LET nm == Append(cur, path[i])
         IN  IF path[i] = Slash \/ i = Len(path)
             THEN <<nm>> \o SplitPath(path, i + 1, <<>>)
             ELSE SplitPath(path, i + 1, nm)

PreprocessPath(path) == SplitPath(path, 1, <<>>)

(* ---------------------------- free map -------------------------------- *)
EmptyMap == [s \in Sectors |-> FALSE]
Mark(bm, s) == [bm EXCEPT ![s] = TRUE]
Clear(bm, s) == [bm EXCEPT ![s] = FALSE]
Marked(bm) == {s \in Sectors : bm[s]}
NumMarked(bm) == Cardinality(Marked(bm))

\* the lowest clear sector, or NoSector when the device is full
FindClear(bm) ==
    IF \A s \in Sectors : bm[s] THEN NoSector
    ELSE CHOOSE s \in Sectors : ~bm[s] /\ \A t \in Sectors : ~bm[t] => s <= t

FindAndSet(bm) ==
    LET s == FindClear(bm)
    IN  [sector |-> s, map |-> IF s = NoSector THEN bm ELSE Mark(bm, s)]

(* --------------------------- file headers ----------------------------- *)
NoHdr == [numBytes |-> 0 - 1, dataSectors |-> <<>>]
DivRoundUp(n, m) == (n + m - 1) \div m

\* k successive FindAndSet calls; fails as soon as one finds no sector
RECURSIVE ClaimSectors(_, _)
ClaimSectors(bm, k) ==
    IF k = 0 THEN [ok |-> TRUE, map |-> bm, secs |-> <<>>]
    ELSE LET r == FindAndSet(bm)
         IN  IF r.sector = NoSector
             THEN [ok |-> FALSE, map |-> bm, secs |-> <<>>]
             ELSE LET rest == ClaimSectors(r.map, k - 1)
                  IN  [ok |-> rest.ok, map |-> rest.map,
                       secs |-> <<r.sector>> \o rest.secs]

Allocate(bm, size) ==
    LET r == ClaimSectors(bm, DivRoundUp(size, SectorSize))
    IN  [ok |-> r.ok, map |-> r.map,
         hdr |-> [numBytes |-> size, dataSectors |-> r.secs]]

RECURSIVE ClearAll(_, _)
ClearAll(bm, secs) ==
    IF secs = <<>> THEN bm ELSE ClearAll(Clear(bm, Head(secs)), Tail(secs))

Deallocate(bm, hdr) == ClearAll(bm, hdr.dataSectors)

(* ---------------------------- directories ----------------------------- *)
Slots == 1 .. NumDirEntries
FreeEntry == [inUse |-> FALSE, name |-> <<>>, sector |-> NoSector]
EmptyTable == [i \in Slots |-> FreeEntry]

FindIndexNone(table, name) == 0
FindIndex(table, name) ==
    IF \E i \in Slots : table[i].inUse /\ table[i].name = name
    THEN CHOOSE i \in Slots : /\ table[i].inUse /\ table[i].name = name
                              /\ \A j \in Slots :
                                   (table[j].inUse /\ table[j].name = name) => i <= j
    ELSE 0

Find(table, name) ==
    LET i == FindIndex(table, name)
    IN  IF i = 0 THEN NoSector ELSE table[i].sector

Add(table, name, sector) ==
    IF FindIndex(table, name) # 0 THEN [ok |-> FALSE, table |-> table]
    ELSE IF \A i \in Slots : table[i].inUse THEN [ok |-> FALSE, table |-> table]
    ELSE LET i == CHOOSE k \in Slots :
                     ~table[k].inUse /\ \A j \in Slots : ~table[j].inUse => k <= j
         IN  [ok |-> TRUE,
              table |-> [table EXCEPT
                           ![i] = [inUse |-> TRUE, name |-> name, sector |-> sector]]]

RemoveEntry(table, name) ==
    LET i == FindIndex(table, name)
    IN  IF i = 0 THEN table ELSE [table EXCEPT ![i] = FreeEntry]

InUse(table) == {[name |-> table[i].name, sector |-> table[i].sector] :
                   i \in {j \in Slots : table[j].inUse}}

(* ------------------------ open file handles --------------------------- *)
\* an OpenFile: the header sector it was opened on, the header read then,
\* and the descriptor tag set by SetFd
NoFd == 0 - 1

\* how many directory entries the file behind a handle can hold: byte-range
\* reads and writes stop at the file's length
Capacity(file) ==
    LET n == file.hdr.numBytes \div DirEntrySize
    IN  IF n < 0 THEN 0 ELSE IF n > NumDirEntries THEN NumDirEntries ELSE n

\* Directory::FetchFrom: the entries the file holds; the rest of the
\* in-memory table stays as constructed (not in use)
FetchFrom(tb, file) ==
    [i \in Slots |-> IF i <= Capacity(file) THEN tb[file.sector][i] ELSE FreeEntry]

\* Directory::WriteBack: the entries that fit in the file reach the disk
WriteBack(tb, file, table) ==
    [tb EXCEPT ![file.sector] =
        [i \in Slots |-> IF i <= Capacity(file) THEN table[i] ELSE tb[file.sector][i]]]


(* ------------------------------- state -------------------------------- *)
VARIABLES
    bitmap,          \* the free map as stored in the bitmap file
    hdrs,            \* the file header stored at each sector
    tables,          \* the directory table stored in the file of each header sector
    sysOpFileTable,  \* descriptor -> open handle, or NoFile
    fdPosition,      \* the cursor of GetSysFd
    loose,           \* handles returned by Open that are in no table slot (a bag)
    rootHandles,     \* the header sectors of the root handles that are still open
    halted,          \* an ASSERT failed: the machine stopped
    ops,             \* how many operations have been called
    last             \* the operation that ran last, with its result

vars == <<bitmap, hdrs, tables, sysOpFileTable, fdPosition, loose, rootHandles,
          halted, ops, last>>
disk == <<bitmap, hdrs, tables>>

NoFile == [sector |-> NoSector, hdr |-> NoHdr, fd |-> NoFd, root |-> FALSE]
OpenFile(hd, s) == [sector |-> s, hdr |-> hd[s], fd |-> NoFd, root |-> FALSE]
\* the two handles the file system keeps open from its construction on
freeMapFile(hd) == [OpenFile(hd, FreeMapSector) EXCEPT !.root = TRUE]
directoryFile(hd) == [OpenFile(hd, DirectorySector) EXCEPT !.root = TRUE]

(* ------------------------ releasing handles --------------------------- *)
\* "if (dirFile != directoryFile) delete dirFile": the handles this deletes
DeleteDirFileAlways(hd, dirFile) == <<dirFile>>
DeleteDirFile(hd, dirFile) ==
    IF dirFile # directoryFile(hd) THEN <<dirFile>> ELSE <<>>

\* among deleted handles: the root handles, by header sector, and how many
\* are directory handles opened by path resolution (delete of NULL does nothing)
RootsIn(deleted) ==
    {deleted[i].sector : i \in {j \in 1 .. Len(deleted) : deleted[j].root}}
TransientIn(deleted) ==
    Cardinality({i \in 1 .. Len(deleted) : deleted[i] # NoFile /\ ~deleted[i].root})

(* -------------------------- path resolution --------------------------- *)
\* ASSERT(pathQueue.empty()) where a directory component is not found
AssertTolerant(rest) == FALSE
AssertFails(rest) == rest # <<>>

\* the loop of GoDirectory over the queue of components; opened counts the
\* handles it opens, deleted lists the handles it deletes on the way down
RECURSIVE Walk(_, _, _, _, _)
Walk(hd, tb, queue, dirFile, directory) ==
    IF queue = <<>>
    THEN [abort |-> FALSE, dirFile |-> dirFile, name |-> <<>>,
          opened |-> 0, deleted |-> <<>>]
    ELSE LET name == Head(queue)
             rest == Tail(queue)
             stop == [abort |-> FALSE, dirFile |-> dirFile, name |-> name,
                      opened |-> 0, deleted |-> <<>>]
         IN  IF name = RootName
             THEN Walk(hd, tb, rest, directoryFile(hd),
                       FetchFrom(tb, directoryFile(hd)))
             ELSE IF IsDir(name)
             THEN LET subDirSector == Find(directory, name)
                  IN  IF subDirSector = NoSector
                      THEN [stop EXCEPT !.abort = AssertFails(rest)]
                      ELSE IF rest = <<>>
                      THEN stop
                      ELSE LET sub == OpenFile(hd, subDirSector)
                               r == Walk(hd, tb, rest, sub, FetchFrom(tb, sub))
                           IN  [r EXCEPT !.opened = @ + 1,
                                         !.deleted = DeleteDirFile(hd, dirFile) \o @]
             ELSE [stop EXCEPT !.abort = rest # <<>>]

\* the directory handles path resolution opened that are still open once the
\* operation has deleted the handles of after
StillOpen(g, after) == g.opened - TransientIn(g.deleted \o after)

GoDirectory(hd, tb, path) == Walk(hd, tb, PreprocessPath(path), NoFile, EmptyTable)

(* ------------------------------ Create -------------------------------- *)
\* what reaches the disk at the end of Create: the changed copy on success,
\* nothing otherwise
CreateFlushAlways(success, onDisk, inMemory) == inMemory
CreateFlush(success, onDisk, inMemory) == IF success THEN inMemory ELSE onDisk

\* the sector for the new file's header
CreateHeaderNoSet(bm) == [sector |-> FindClear(bm), map |-> bm]
CreateHeaderSector(bm) == FindAndSet(bm)

\* a new sub-directory's file is formatted with an empty table
FormatSubDir(hd, tb, name, sector) ==
    IF IsDir(name) THEN WriteBack(tb, OpenFile(hd, sector), EmptyTable) ELSE tb

CreateResult(bm, hd, tb, path, initialSize) ==
    LET g == GoDirectory(hd, tb, path)
        name == g.name
        directory == FetchFrom(tb, g.dirFile)
        fs == CreateHeaderSector(bm)
        sector == fs.sector
        ad == Add(directory, name, sector)
        al == Allocate(fs.map, initialSize)
        why == IF Find(directory, name) # NoSector THEN "exists"
               ELSE IF sector = NoSector THEN "noheader"
               ELSE IF ~ad.ok THEN "dirfull"
               ELSE IF ~al.ok THEN "nodata"
               ELSE "ok"
        success == why = "ok"
        hd2 == [hd EXCEPT ![sector] = al.hdr]
        tb2 == FormatSubDir(hd2, WriteBack(tb, g.dirFile, ad.table), name, sector)
        \* dirFile is deleted on the path that flushes, and on no other
        deleted == IF success THEN DeleteDirFile(hd, g.dirFile) ELSE <<>>
    IN  IF g.abort
        THEN [res |-> "ABORT", why |-> "assert", map |-> bm, hdrs |-> hd, tables |-> tb,
              open |-> StillOpen(g, <<>>), roots |-> RootsIn(g.deleted)]
        ELSE [res |-> IF success THEN "TRUE" ELSE "FALSE",
              why |-> why,
              open |-> StillOpen(g, deleted),
              roots |-> RootsIn(g.deleted \o deleted),
              map |-> CreateFlush(success, bm,
                                  IF why \in {"ok", "nodata"} THEN al.map
                                  ELSE IF why = "dirfull" THEN fs.map ELSE bm),
              hdrs |-> IF success THEN hd2 ELSE hd,
              tables |-> IF success THEN tb2 ELSE tb]

Create(path, initialSize) ==
    /\ LET r == CreateResult(bitmap, hdrs, tables, path, initialSize)
       IN  /\ bitmap' = r.map
           /\ hdrs' = r.hdrs
           /\ tables' = r.tables
           /\ rootHandles' = rootHandles \ r.roots
           /\ halted' = (r.res = "ABORT")
           /\ last' = [op |-> "Create", res |-> r.res, why |-> r.why, file |-> NoFile,
                       open |-> r.open]
    /\ UNCHANGED <<sysOpFileTable, fdPosition, loose>>

(* ------------------------------ Remove -------------------------------- *)
\* Directory::RecRemove: every in-use entry's header and data sectors are
\* cleared in the free map, the entries of a sub-directory first
RECURSIVE RecRemove(_, _, _, _)
RecRemove(bm, hd, tb, table) ==
    LET RECURSIVE Each(_, _)
        Each(m, i) ==
            IF i > NumDirEntries THEN m
            ELSE IF ~table[i].inUse THEN Each(m, i + 1)
            ELSE LET e == table[i]
                     m1 == IF IsDir(e.name)
                           THEN RecRemove(m, hd, tb,
                                          FetchFrom(tb, OpenFile(hd, e.sector)))
                           ELSE m
                     m2 == Clear(Deallocate(m1, hd[e.sector]), e.sector)
                 IN  Each(m2, i + 1)
    IN  Each(bm, 1)

\* the sub-directory's contents are reclaimed first when asked for
RemoveNeverRecurses(recurRemoveFlag, name) == FALSE
RemoveAlwaysRecurses(recurRemoveFlag, name) == IsDir(name)
RemoveRecurses(recurRemoveFlag, name) == recurRemoveFlag /\ IsDir(name)

\* the entry Remove looks for: the one of that name
RemoveLookupAny(directory, name) ==
    IF InUse(directory) = {} THEN NoSector
    ELSE (CHOOSE e \in InUse(directory) : TRUE).sector
RemoveLookup(directory, name) == Find(directory, name)

RemoveResult(bm, hd, tb, path, recurRemoveFlag) ==
    LET g == GoDirectory(hd, tb, path)
        name == g.name
        directory == FetchFrom(tb, g.dirFile)
        sector == RemoveLookup(directory, name)
        subDirFile == OpenFile(hd, sector)
        m1 == IF RemoveRecurses(recurRemoveFlag, name)
              THEN RecRemove(bm, hd, tb, FetchFrom(tb, subDirFile))
              ELSE bm
        m2 == Clear(Deallocate(m1, hd[sector]), sector)
        deleted == DeleteDirFile(hd, g.dirFile)
    IN  IF g.abort
        THEN [res |-> "ABORT", why |-> "assert", map |-> bm, tables |-> tb,
              open |-> StillOpen(g, <<>>), roots |-> RootsIn(g.deleted)]
        ELSE IF sector = NoSector
        THEN [res |-> "FALSE", why |-> "notfound", map |-> bm, tables |-> tb,
              open |-> StillOpen(g, <<>>), roots |-> RootsIn(g.deleted)]
        ELSE [res |-> "TRUE", why |-> "ok", map |-> m2,
              tables |-> WriteBack(tb, g.dirFile, RemoveEntry(directory, name)),
              open |-> StillOpen(g, deleted),
              roots |-> RootsIn(g.deleted \o deleted)]

Remove(path, recurRemoveFlag) ==
    /\ LET r == RemoveResult(bitmap, hdrs, tables, path, recurRemoveFlag)
       IN  /\ bitmap' = r.map
           /\ tables' = r.tables
           /\ rootHandles' = rootHandles \ r.roots
           /\ halted' = (r.res = "ABORT")
           /\ last' = [op |-> "Remove", res |-> r.res, why |-> r.why, file |-> NoFile,
                       open |-> r.open]
    /\ UNCHANGED <<hdrs, sysOpFileTable, fdPosition, loose>>

(* ------------------------------- List --------------------------------- *)
\* List(path, recursiveListFlag) prints names and writes nothing.  The flat
\* listing of a name the directory does not hold opens a file on sector -1:
\* what that read does is not defined, and unread gives the outcome (the
\* machine stops, or the listing goes on over whatever was read)
UnreadOutcomes == {"ABORT", "VOID"}

ListResult(hd, tb, path, recursiveListFlag, unread) ==
    LET g == GoDirectory(hd, tb, path)
        name == g.name
        directory == FetchFrom(tb, g.dirFile)
        deleted == DeleteDirFile(hd, g.dirFile)
        done == [res |-> "VOID", why |-> "ok",
                 open |-> StillOpen(g, deleted),
                 roots |-> RootsIn(g.deleted \o deleted)]
    IN  IF g.abort
        THEN [res |-> "ABORT", why |-> "assert",
              open |-> StillOpen(g, <<>>), roots |-> RootsIn(g.deleted)]
        ELSE IF recursiveListFlag
        THEN done
        ELSE IF g.dirFile = directoryFile(hd) /\ ~IsDir(name)
        \* the root is listed and List returns at once
        THEN [res |-> "VOID", why |-> "root",
              open |-> StillOpen(g, <<>>), roots |-> RootsIn(g.deleted)]
        ELSE IF Find(directory, name) = NoSector
        THEN IF unread = "ABORT"
             THEN [res |-> "ABORT", why |-> "nosector",
                   open |-> StillOpen(g, <<>>), roots |-> RootsIn(g.deleted)]
             ELSE [done EXCEPT !.why = "nosector"]
        ELSE done

List(path, recursiveListFlag, unread) ==
    /\ LET r == ListResult(hdrs, tables, path, recursiveListFlag, unread)
       IN  /\ rootHandles' = rootHandles \ r.roots
           /\ halted' = (r.res = "ABORT")
           /\ last' = [op |-> "List", res |-> r.res, why |-> r.why, file |-> NoFile,
                       open |-> r.open]
    /\ UNCHANGED <<bitmap, hdrs, tables, sysOpFileTable, fdPosition, loose>>

(* ----------------------- descriptor table ----------------------------- *)
Fds == 0 .. (SYS_MAX_OPEN_FILE_NUM - 1)

\* the loop of GetSysFd: i counts the probes, fd is moved on by i each time
RECURSIVE Probe(_, _, _)
Probe(table, fd, i) ==
    IF i >= SYS_MAX_OPEN_FILE_NUM
    THEN [ok |-> FALSE, fd |-> NoFd, pos |-> NoFd]
    ELSE LET f == (fd + i) % SYS_MAX_OPEN_FILE_NUM
         IN  IF table[f] = NoFile
             THEN [ok |-> TRUE, fd |-> f, pos |-> f + 1]
             ELSE Probe(table, f, i + 1)

GetSysFd(table, pos) ==
    LET r == Probe(table, pos, 0)
    IN  [ok |-> r.ok, fd |-> r.fd, pos |-> IF r.ok THEN r.pos ELSE pos]

GetOpenFileTable(table, fd) == table[fd]

\* the handles that exist: those in the table and those only the caller holds
InTable(table) == {fd \in Fds : table[fd] # NoFile}
NumLive(table, ls) == Cardinality(InTable(table)) + BagCardinality(ls)

(* ------------------------------- Open --------------------------------- *)
OpenResult(hd, tb, table, pos, path) ==
    LET g == GoDirectory(hd, tb, path)
        name == g.name
        directory == FetchFrom(tb, g.dirFile)
        sector == Find(directory, name)
        sys == GetSysFd(table, pos)
        \* dirFile is deleted right after the directory is fetched
        deleted == DeleteDirFile(hd, g.dirFile)
        out == IF g.abort
               THEN [res |-> "ABORT", why |-> "assert", file |-> NoFile, pos |-> pos]
               ELSE IF IsDir(name)
               THEN [res |-> "NULL", why |-> "badpath", file |-> NoFile, pos |-> pos]
               ELSE IF sector = NoSector
               THEN [res |-> "NULL", why |-> "notfound", file |-> NoFile, pos |-> pos]
               ELSE IF ~sys.ok
               THEN [res |-> "NULL", why |-> "nofd", file |-> NoFile, pos |-> pos]
               ELSE [res |-> "FILE", why |-> "ok",
                     file |-> [OpenFile(hd, sector) EXCEPT !.fd = sys.fd],
                     pos |-> sys.pos]
    IN  [res |-> out.res, why |-> out.why, file |-> out.file, pos |-> out.pos,
         open |-> StillOpen(g, IF g.abort THEN <<>> ELSE deleted),
         roots |-> RootsIn(g.deleted \o (IF g.abort THEN <<>> ELSE deleted))]

\* Open hands the handle to its caller; the table is not written
Open(path) ==
    LET r == OpenResult(hdrs, tables, sysOpFileTable, fdPosition, path)
    IN  /\ r.res = "FILE" => NumLive(sysOpFileTable, loose) < MaxHandles
        /\ fdPosition' = r.pos
        /\ loose' = IF r.res = "FILE" THEN loose (+) SetToBag({r.file}) ELSE loose
        /\ rootHandles' = rootHandles \ r.roots
        /\ halted' = (r.res = "ABORT")
        /\ last' = [op |-> "Open", res |-> r.res, why |-> r.why, file |-> r.file,
                    open |-> r.open]
        /\ UNCHANGED <<bitmap, hdrs, tables, sysOpFileTable>>

(* ------------------- SetOpenFileTable, Close, Read, Write ------------- *)
\* the caller stores a handle it got from Open under the handle's descriptor
SetOpenFileTable(fd, openFile) ==
    /\ BagIn(openFile, loose)
    /\ fd = openFile.fd
    /\ sysOpFileTable' = [sysOpFileTable EXCEPT ![fd] = openFile]
    /\ loose' = (loose (-) SetToBag({openFile}))
                  (+) (IF sysOpFileTable[fd] = NoFile THEN EmptyBag
                       ELSE SetToBag({sysOpFileTable[fd]}))
    /\ last' = [op |-> "SetOpenFileTable", res |-> "VOID", why |-> "ok",
                file |-> openFile, open |-> 0]
    /\ UNCHANGED <<bitmap, hdrs, tables, fdPosition, rootHandles, halted>>

\* the table entry is erased and the handle found there deleted; a handle
\* of that descriptor that was never stored in the table is given up by its
\* caller without being deleted
Close(fd) ==
    /\ sysOpFileTable' = [sysOpFileTable EXCEPT ![fd] = NoFile]
    /\ loose' = [h \in {x \in BagToSet(loose) : x.fd # fd} |-> loose[h]]
    /\ last' = [op |-> "Close", res |-> "1",
                why |-> IF GetOpenFileTable(sysOpFileTable, fd) = NoFile
                        THEN "absent" ELSE "ok",
                file |-> GetOpenFileTable(sysOpFileTable, fd), open |-> 0]
    \* delete opFile: the handle found in the table
    /\ rootHandles' = rootHandles \ RootsIn(<<GetOpenFileTable(sysOpFileTable, fd)>>)
    /\ UNCHANGED <<bitmap, hdrs, tables, fdPosition, halted>>

ReadWriteResult(table, fd) ==
    IF GetOpenFileTable(table, fd) # NoFile THEN "DELEGATED" ELSE "-1"

Read(fd) ==
    /\ last' = [op |-> "Read", res |-> ReadWriteResult(sysOpFileTable, fd),
                why |-> "ok", file |-> GetOpenFileTable(sysOpFileTable, fd), open |-> 0]
    /\ UNCHANGED <<bitmap, hdrs, tables, sysOpFileTable, fdPosition, loose,
                   rootHandles, halted>>

Write(fd) ==
    /\ last' = [op |-> "Write", res |-> ReadWriteResult(sysOpFileTable, fd),
                why |-> "ok", file |-> GetOpenFileTable(sysOpFileTable, fd), open |-> 0]
    /\ UNCHANGED <<bitmap, hdrs, tables, sysOpFileTable, fdPosition, loose,
                   rootHandles, halted>>

(* -------------------------- initial state ----------------------------- *)
\* FileSystem::FileSystem(format = TRUE)
FormatMap ==
    LET m0 == Mark(Mark(EmptyMap, FreeMapSector), DirectorySector)
        mapHdr == Allocate(m0, FreeMapFileSize)
        dirHdr == Allocate(mapHdr.map, DirectoryFileSize)
    IN  [map |-> dirHdr.map, mapHdr |-> mapHdr.hdr, dirHdr |-> dirHdr.hdr,
         ok |-> mapHdr.ok /\ dirHdr.ok]

Formatted ==
    /\ FormatMap.ok
    /\ bitmap = FormatMap.map
    /\ hdrs = [s \in Sectors |->
                 IF s = FreeMapSector THEN FormatMap.mapHdr
                 ELSE IF s = DirectorySector THEN FormatMap.dirHdr
                 ELSE NoHdr]
    /\ tables = [s \in Sectors |-> EmptyTable]
    /\ sysOpFileTable = [fd \in Fds |-> NoFile]
    /\ loose = EmptyBag
    /\ rootHandles = {FreeMapSector, DirectorySector}
    /\ halted = FALSE
    /\ ops = 0
    /\ last = [op |-> "Format", res |-> "TRUE", why |-> "ok", file |-> NoFile,
               open |-> 0]

Init == Formatted /\ fdPosition = 0

\* one more call of an operation, while the machine runs
Call == /\ ~halted
        /\ ops < MaxOps
        /\ ops' = ops + 1

DoCreate == \E p \in Paths, n \in Sizes : Call /\ Create(p, n)
DoRemove == \E p \in Paths, r \in BOOLEAN : Call /\ Remove(p, r)
DoOpen == \E p \in Paths : Call /\ Open(p)
DoRegister == \E f \in BagToSet(loose) : Call /\ SetOpenFileTable(f.fd, f)
DoClose == \E fd \in Fds : Call /\ Close(fd)
DoList == \E p \in Paths, r \in BOOLEAN, u \in UnreadOutcomes : Call /\ List(p, r, u)

\* every sequence of at most MaxOps calls, from a freshly formatted device
Next == DoCreate \/ DoRemove \/ DoOpen \/ DoRegister \/ DoClose \/ DoList

Spec == Init /\ [][Next]_vars

\* the descriptor table alone: one plain file, and every sequence of Open,
\* SetOpenFileTable, Close, Read and Write
InitFd == Formatted /\ fdPosition \in 0 .. SYS_MAX_OPEN_FILE_NUM

Running == ~halted /\ UNCHANGED ops
FdPaths == {RootName \o FileF, RootName \o FileG, RootName \o DirD}

FdCreate == Running /\ Create(RootName \o FileF, 0)
FdOpen == \E p \in FdPaths : Running /\ Open(p)
FdRegister == \E f \in BagToSet(loose) : Running /\ SetOpenFileTable(f.fd, f)
FdClose == \E fd \in Fds : Running /\ Close(fd)
FdRead == \E fd \in Fds : Running /\ Read(fd)
FdWrite == \E fd \in Fds : Running /\ Write(fd)

NextFd == FdCreate \/ FdOpen \/ FdRegister \/ FdClose \/ FdRead \/ FdWrite

SpecFd == InitFd /\ [][NextFd]_vars

(* ======================= properties of the model ====================== *)
Range(seq) == {seq[i] : i \in 1 .. Len(seq)}

\* the header sector and the listed data sectors of the file whose header is at s
FileSectors(s) == {s} \cup Range(hdrs[s].dataSectors)

DirTable(s) == FetchFrom(tables, OpenFile(hdrs, s))
RootTable == FetchFrom(tables, directoryFile(hdrs))

\* the sectors of the files reachable from a directory table through in-use entries
RECURSIVE LiveUnder(_, _)
LiveUnder(table, fuel) ==
    UNION {FileSectors(e.sector) \cup
             (IF IsDir(e.name) /\ fuel > 0
              THEN LiveUnder(DirTable(e.sector), fuel - 1) ELSE {}) :
           e \in InUse(table)}

Live == FileSectors(FreeMapSector) \cup FileSectors(DirectorySector)
          \cup LiveUnder(RootTable, NumSectors)

NumFree == NumSectors - NumMarked(bitmap)

\* the directory a path resolves to and its leaf, in the current state
Resolve(path) == GoDirectory(hdrs, tables, path)
LeafPresent(path) ==
    LET g == Resolve(path)
    IN  /\ ~g.abort
        /\ \E e \in InUse(FetchFrom(tables, g.dirFile)) : e.name = g.name

PlainPaths == {p \in Paths : ~IsDir(p)}

(* C1: after any sequence of Create, Remove, Open and Close from a freshly  *)
(* formatted device, a sector is marked in the on-disk bitmap if and only   *)
(* if it is sector 0 or 1 or the header sector or a data sector of a live   *)
(* file (the bitmap file, the root directory file, or a file reachable      *)
(* from the root through in-use entries).                                   *)
C1_BitmapIsLive ==
    \A s \in Sectors : bitmap[s] <=> (s \in Live \/ s \in {FreeMapSector, DirectorySector})

\* the half of C1 the code keeps: a live sector is marked
LiveIsMarked == \A s \in Live : bitmap[s]

(* C2: a Create that returns FALSE leaves the on-disk bitmap, the          *)
(* directory tables and all file headers as they were; a Create that needs  *)
(* more sectors than are free does not succeed and leaves them so too.      *)
C2_FailedCreateWritesNothing ==
    [][ /\ (last'.op = "Create" /\ last'.res = "FALSE") => disk' = disk
        /\ \A p \in Paths, n \in Sizes :
              (/\ last'.op = "Create"
               /\ 1 + DivRoundUp(n, SectorSize) > NumFree
               /\ Create(p, n))
                 => (last'.res # "TRUE" /\ disk' = disk) ]_vars

\* a Create has failed for want of data sectors, after claiming some in memory
C2_Witness ==
    /\ last.op = "Create" /\ last.res = "FALSE" /\ last.why = "nodata"
    /\ NumFree > 1

(* C3: a Remove, recursive or not, of a leaf name that is not an in-use    *)
(* entry of the directory its path resolves to returns FALSE and changes    *)
(* neither the on-disk bitmap nor any on-disk directory table.              *)
C3_RemoveMissingWritesNothing ==
    [][ \A p \in Paths, r \in BOOLEAN :
           (/\ last'.op = "Remove"
            /\ ~Resolve(p).abort /\ ~LeafPresent(p)
            /\ Remove(p, r))
              => (last'.res = "FALSE" /\ bitmap' = bitmap /\ tables' = tables) ]_vars

\* a Remove has returned FALSE on a device that holds other files
C3_Witness ==
    /\ last.op = "Remove" /\ last.res = "FALSE"
    /\ InUse(RootTable) # {}

(* C4: on a freshly formatted device, after Create("/d/", 0) has made a    *)
(* sub-directory of the root, Create("/d/f", n) succeeds and f is then an   *)
(* in-use entry of the table stored in d's file, and no entry of the root   *)
(* directory's table.                                                       *)
PathD == RootName \o DirD
PathDF == RootName \o DirD \o FileF
Names(table) == {e.name : e \in InUse(table)}

C4_FileInNewSubDir ==
    [][ \A n \in Sizes :
           (/\ last'.op = "Create"
            /\ ops = 1
            /\ Find(RootTable, DirD) # NoSector
            /\ hdrs[Find(RootTable, DirD)].numBytes = 0
            /\ Create(PathDF, n))
              => (/\ last'.res = "TRUE"
                  /\ FileF \in Names(DirTable(Find(RootTable, DirD)))'
                  /\ FileF \notin Names(RootTable)') ]_vars

\* what the code keeps of C4: in a sub-directory whose file was created
\* with room for the whole table, a created file is an entry of that table
SubDirOfFullSizeHoldsFile ==
    [][ \A n \in Sizes :
           (/\ last'.op = "Create"
            /\ Find(RootTable, DirD) # NoSector
            /\ hdrs[Find(RootTable, DirD)].numBytes >= DirectoryFileSize
            /\ Create(PathDF, n)
            /\ last'.res = "TRUE")
              => (/\ FileF \in Names(DirTable(Find(RootTable, DirD)))'
                  /\ RootTable' = RootTable) ]_vars

(* C5 (as amended): a successful Create of a plain file of n bytes raises   *)
(* the number of sectors marked in the on-disk bitmap by exactly            *)
(* 1 + ceil(n / SectorSize): the header sector and the data sectors.        *)
C5_CreateConsumes ==
    [][ \A p \in PlainPaths, n \in Sizes :
           (/\ last'.op = "Create" /\ last'.res = "TRUE"
            /\ Create(p, n))
              => NumMarked(bitmap') = NumMarked(bitmap) + 1 + DivRoundUp(n, SectorSize) ]_vars

(* C5 as claimed: the rise is exactly 2 + ceil(n / SectorSize).             *)
C5_CreateConsumesTwoMore ==
    [][ \A p \in PlainPaths, n \in Sizes :
           (/\ last'.op = "Create" /\ last'.res = "TRUE"
            /\ Create(p, n))
              => NumMarked(bitmap') = NumMarked(bitmap) + 2 + DivRoundUp(n, SectorSize) ]_vars

\* the first operation created /f with a size that is not a whole number of sectors
C5_Witness ==
    /\ ops = 1 /\ last.op = "Create" /\ last.res = "TRUE"
    /\ Find(RootTable, FileF) # NoSector
    /\ hdrs[Find(RootTable, FileF)].numBytes = SectorSize + 1
    /\ Len(hdrs[Find(RootTable, FileF)].dataSectors) = 2

(* C6: for a plain file name not present in its directory, a successful     *)
(* Create(name, n) followed by Remove(name) returns TRUE and restores the   *)
(* on-disk bitmap and the in-use entries of the directory; a second Create  *)
(* of the name with a size up to n then succeeds and claims only sectors    *)
(* the Remove freed; a Create of the name while it is present returns FALSE.*)
C6_CreateRemoveRoundTrip ==
    \A p \in PlainPaths, n \in Sizes :
        LET c == CreateResult(bitmap, hdrs, tables, p, n)
            g == Resolve(p)
            r == RemoveResult(c.map, c.hdrs, c.tables, p, FALSE)
        IN  (~LeafPresent(p) /\ c.res = "TRUE")
              => /\ r.res = "TRUE"
                 /\ r.map = bitmap
                 /\ InUse(FetchFrom(r.tables, g.dirFile))
                      = InUse(FetchFrom(tables, g.dirFile))
                 /\ CreateResult(c.map, c.hdrs, c.tables, p, n).res = "FALSE"
                 /\ \A m \in Sizes :
                       m <= n =>
                         LET c2 == CreateResult(r.map, c.hdrs, r.tables, p, m)
                         IN  /\ c2.res = "TRUE"
                             /\ Marked(c2.map) \ Marked(r.map)
                                  \subseteq Marked(c.map) \ Marked(r.map)

\* what the code keeps of C6: the round trip in the root directory
RootRoundTrip ==
    \A p \in {RootName \o FileF, RootName \o FileG}, n \in Sizes :
        LET c == CreateResult(bitmap, hdrs, tables, p, n)
            r == RemoveResult(c.map, c.hdrs, c.tables, p, FALSE)
        IN  (~LeafPresent(p) /\ c.res = "TRUE")
              => /\ r.res = "TRUE"
                 /\ r.map = bitmap
                 /\ InUse(FetchFrom(r.tables, directoryFile(hdrs))) = InUse(RootTable)
                 /\ CreateResult(c.map, c.hdrs, c.tables, p, n).res = "FALSE"

(* C7: any two handles returned by Open and not yet closed carry different  *)
(* descriptors.                                                             *)
C7_DescriptorsUnique ==
    /\ \A h \in BagToSet(loose) : CopiesIn(h, loose) = 1
    /\ \A h1, h2 \in BagToSet(loose) : h1 # h2 => h1.fd # h2.fd
    /\ \A h \in BagToSet(loose) : sysOpFileTable[h.fd] \in {NoFile, h}

(* C8: from a successful Open that tags its handle with fd until Close(fd), *)
(* the descriptor table maps fd to that handle, so that a Read or Write on  *)
(* fd is delegated to the handle and does not return -1.                    *)
C8_OpenedIsMapped ==
    \A h \in BagToSet(loose) :
        /\ GetOpenFileTable(sysOpFileTable, h.fd) = h
        /\ ReadWriteResult(sysOpFileTable, h.fd) # "-1"

(* C9: whenever a descriptor slot holds no handle, GetSysFd returns TRUE    *)
(* with a free slot, whatever the cursor and the occupancy; Open fails for  *)
(* want of a descriptor only when the table is full.                        *)
C9_FreeSlotIsGranted ==
    /\ (\E fd \in Fds : sysOpFileTable[fd] = NoFile)
          => LET r == GetSysFd(sysOpFileTable, fdPosition)
             IN  r.ok /\ sysOpFileTable[r.fd] = NoFile
    /\ (last.op = "Open" /\ last.why = "nofd")
          => \A fd \in Fds : sysOpFileTable[fd] # NoFile

\* some run of Opens, each handle stored in the table or not, with no Close
\* in between, is granted descriptor fd
RECURSIVE CanGrant(_, _, _, _)
CanGrant(table, pos, fd, k) ==
    /\ k > 0
    /\ LET r == GetSysFd(table, pos)
       IN  /\ r.ok
           /\ \/ r.fd = fd
              \/ CanGrant(table, r.pos, fd, k - 1)
              \/ CanGrant([table EXCEPT ![r.fd] = [NoFile EXCEPT !.fd = r.fd]],
                          r.pos, fd, k - 1)

(* C10: Close(fd) of a descriptor that holds no handle leaves the table and *)
(* the live handles as they are; any Close(fd) leaves the other             *)
(* descriptors' entries unchanged; and after Close(fd) a later Open can be  *)
(* granted fd again.                                                        *)
C10_CloseFreesSlot ==
    [][ \A fd \in Fds :
           (last'.op = "Close" /\ Close(fd))
              => /\ \A o \in Fds \ {fd} : sysOpFileTable'[o] = sysOpFileTable[o]
                 /\ (sysOpFileTable[fd] = NoFile =>
                        sysOpFileTable' = sysOpFileTable)
                 /\ CanGrant(sysOpFileTable', fdPosition', fd,
                             2 * SYS_MAX_OPEN_FILE_NUM) ]_vars

\* what the code keeps of C10: closing an absent descriptor changes no entry,
\* and the closed slot holds no handle afterwards
CloseIsIdempotent ==
    [][ \A fd \in Fds :
           (last'.op = "Close" /\ Close(fd))
              => /\ \A o \in Fds \ {fd} : sysOpFileTable'[o] = sysOpFileTable[o]
                 /\ sysOpFileTable'[fd] = NoFile ]_vars

\* the free slot that comes first in the order pos, pos+1, pos+2, ... around
\* the table
CyclicDistance(pos, fd) == (fd - pos) % SYS_MAX_OPEN_FILE_NUM
FirstFreeFrom(table, pos) ==
    CHOOSE f \in Fds :
        /\ table[f] = NoFile
        /\ \A g \in Fds : table[g] = NoFile
                              => CyclicDistance(pos, f) <= CyclicDistance(pos, g)

(* C15: the descriptor GetSysFd grants is the first slot holding no handle   *)
(* in the cyclic order fdPosition, fdPosition + 1, ... ; no free slot        *)
(* earlier in that order is skipped; and after a successful Open the cursor  *)
(* is the position after the descriptor it granted.                         *)
C15_GrantIsFirstFree ==
    /\ LET r == GetSysFd(sysOpFileTable, fdPosition)
       IN  r.ok => r.fd = FirstFreeFrom(sysOpFileTable, fdPosition)
    /\ (last.op = "Open" /\ last.res = "FILE") => fdPosition = last.file.fd + 1

\* what the code keeps of C15: a granted slot holds no handle, and the cursor
\* follows the grant
GrantIsFree ==
    /\ LET r == GetSysFd(sysOpFileTable, fdPosition)
       IN  r.ok => sysOpFileTable[r.fd] = NoFile
    /\ (last.op = "Open" /\ last.res = "FILE") => fdPosition = last.file.fd + 1

\* the paths that name a directory, and the sectors of a directory and of
\* everything its persisted table holds, directly or through sub-directories
DirPaths == {p \in Paths : IsDir(p)}
LeafSector(path) ==
    LET g == Resolve(path) IN Find(FetchFrom(tables, g.dirFile), g.name)
TreeSectors(s) == FileSectors(s) \cup LiveUnder(DirTable(s), NumSectors)

RECURSIVE MissingIn(_, _)
MissingIn(table, comps) ==
    /\ Len(comps) > 1
    /\ IsDir(Head(comps))
    /\ \/ Find(table, Head(comps)) = NoSector
       \/ /\ Find(table, Head(comps)) # NoSector
          /\ MissingIn(DirTable(Find(table, Head(comps))), Tail(comps))
MissingIntermediate(path) == MissingIn(RootTable, Tail(PreprocessPath(path)))

\* the result of a call that stopped on the failed assertion of path
\* resolution
StoppedOnAssert(r) == r.res = "ABORT" /\ r.why = "assert"

C13_RootHandlesStayOpen ==
    rootHandles = {FreeMapSector, DirectorySector}

\* two operations resolved to the root directory and returned: a name was
\* created in the root and removed from it again
C13_Witness ==
    /\ ops = 2 /\ last.op = "Remove" /\ last.res = "TRUE"
    /\ InUse(RootTable) = {}
    /\ DirectorySector \in rootHandles

(* C14: whenever Create, Open, Remove or List has returned, with success or  *)
(* with a failure, no directory handle that its path resolution opened is    *)
(* still open.                                                               *)
C14_NoHandleLeftOpen ==
    (last.op \in {"Create", "Open", "Remove", "List"} /\ last.res # "ABORT")
        => last.open = 0

\* what the code keeps of C14: Open, List and the successful Create and
\* Remove leave no such handle open, and no call leaves more than one
ReleasedUnlessFailed ==
    /\ (last.op \in {"Open", "List"} /\ last.res # "ABORT") => last.open = 0
    /\ (last.op \in {"Create", "Remove"} /\ last.res = "TRUE") => last.open = 0
    /\ last.open \in {0, 1}

\* the header sector of the directory that holds the leaf of a path
ParentSector(path) == Resolve(path).dirFile.sector

(* C16: a non-recursive Remove of a sub-directory that has in-use entries    *)
(* returns TRUE, frees only the directory's own entry in its parent and      *)
(* clears only the directory's own header and data sectors in the bitmap;    *)
(* the sectors of everything inside the directory stay marked, and no        *)
(* header and no other table on disk changes.                                *)
C16_PlainRemoveKeepsChildren ==
    [][ \A p \in DirPaths :
           (/\ last'.op = "Remove"
            /\ LeafPresent(p)
            /\ InUse(DirTable(LeafSector(p))) # {}
            /\ Remove(p, FALSE))
              => (/\ last'.res = "TRUE"
                  /\ bitmap' = [s \in Sectors |->
                                  bitmap[s] /\ s \notin FileSectors(LeafSector(p))]
                  /\ \A s \in LiveUnder(DirTable(LeafSector(p)), NumSectors) :
                        bitmap'[s]
                  /\ hdrs' = hdrs
                  /\ \A s \in Sectors \ {ParentSector(p)} : tables'[s] = tables[s]
                  /\ InUse(DirTable(ParentSector(p)))'
                        = InUse(DirTable(ParentSector(p)))
                            \ {[name |-> Resolve(p).name, sector |-> LeafSector(p)]}) ]_vars

\* a directory that held a file has been removed without recursion: its
\* header sector is free, its table still names the file, and the file's
\* header sector is still marked
C16_Witness ==
    /\ last.op = "Remove" /\ last.res = "TRUE"
    /\ \E s \in Sectors \ Live :
          /\ hdrs[s] # NoHdr /\ ~bitmap[s]
          /\ \E e \in InUse(DirTable(s)) : bitmap[e.sector] /\ e.sector \notin Live

\* the sectors whose file is a directory reachable from the root
RECURSIVE DirsUnder(_, _)
DirsUnder(table, fuel) ==
    UNION {IF IsDir(e.name)
           THEN {e.sector} \cup (IF fuel > 0
                                  THEN DirsUnder(DirTable(e.sector), fuel - 1)
                                  ELSE {})
           ELSE {} : e \in InUse(table)}
LiveDirs == {DirectorySector} \cup DirsUnder(RootTable, NumSectors)

DistinctNames(table) ==
    \A i, j \in Slots :
        (i # j /\ table[i].inUse /\ table[j].inUse) => table[i].name # table[j].name

(* C17: in every directory table stored on disk, of the root and of every    *)
(* sub-directory, the in-use entries have pairwise distinct names and there  *)
(* are at most NumDirEntries of them (at most as many as the directory file  *)
(* has room for).                                                            *)
C17_NamesDistinct ==
    /\ \A s \in Sectors : DistinctNames(tables[s])
    /\ \A s \in LiveDirs :
          /\ DistinctNames(DirTable(s))
          /\ Cardinality({i \in Slots : DirTable(s)[i].inUse}) <= NumDirEntries
          /\ Cardinality(InUse(DirTable(s))) <= Capacity(OpenFile(hdrs, s))

\* the root directory is full, and a Create of a name it holds was refused
C17_Witness ==
    /\ last.op = "Create" /\ last.res = "FALSE" /\ last.why = "exists"
    /\ Cardinality(InUse(RootTable)) = NumDirEntries

\* the in-use entries of the directories reachable from the root, each with
\* the sector of the directory that holds it
RECURSIVE EntriesUnder(_, _)
EntriesUnder(dirSector, fuel) ==
    UNION {{[dir |-> dirSector, name |-> e.name, sector |-> e.sector]} \cup
             (IF IsDir(e.name) /\ fuel > 0
              THEN EntriesUnder(e.sector, fuel - 1) ELSE {}) :
           e \in InUse(DirTable(dirSector))}
LiveEntries == EntriesUnder(DirectorySector, NumSectors)
LiveObjects == {FreeMapSector, DirectorySector} \cup {e.sector : e \in LiveEntries}

(* C18: no sector is used twice: the header sector and the data sectors of   *)
(* the bitmap file, of the root directory file and of every file and         *)
(* directory reachable from the root are pairwise distinct, and a successful *)
(* Create claims no sector that belongs to one of them.                      *)
C18_NoSectorTwice ==
    /\ \A o \in LiveObjects :
          Cardinality(FileSectors(o)) = 1 + Len(hdrs[o].dataSectors)
    /\ \A o1, o2 \in LiveObjects :
          o1 # o2 => FileSectors(o1) \cap FileSectors(o2) = {}
    /\ \A e1, e2 \in LiveEntries : e1 # e2 => e1.sector # e2.sector
    /\ \A e \in LiveEntries : e.sector \notin {FreeMapSector, DirectorySector}
    /\ \A p \in Paths, n \in Sizes :
          LET r == CreateResult(bitmap, hdrs, tables, p, n)
          IN  r.res = "TRUE" => (Marked(r.map) \ Marked(bitmap)) \cap Live = {}

\* a Create has taken the last free sectors of a device that holds another
\* file and, from a directory removed without recursion or created without
\* room for its table, sectors that belong to no reachable file
C18_Witness ==
    /\ last.op = "Create" /\ last.res = "TRUE"
    /\ NumFree = 0
    /\ Cardinality(LiveEntries) >= 2
    /\ Marked(bitmap) \ Live # {}

\* the handles Open has returned that are not closed: those stored in the
\* table and those only their caller holds
OpenHandles ==
    BagToSet(loose) \cup {sysOpFileTable[fd] : fd \in InTable(sysOpFileTable)}

(* C19: for every handle returned by Open and not yet closed, the header     *)
(* sector it is bound to is marked in the bitmap and is still the header     *)
(* sector of the plain file it was opened on: a reachable entry names it and *)
(* the header stored there is the one the handle read.                       *)
C19_OpenFileKeepsSector ==
    \A h \in OpenHandles :
        /\ bitmap[h.sector]
        /\ hdrs[h.sector] = h.hdr
        /\ \E e \in LiveEntries : e.sector = h.sector /\ ~IsDir(e.name)

\* the second half of what fails: the sector of an open handle has become
\* the header sector of a directory or holds another header
OpenSectorNotReassigned ==
    \A h \in OpenHandles :
        /\ hdrs[h.sector] = h.hdr
        /\ \A e \in LiveEntries : e.sector = h.sector => ~IsDir(e.name)


=============================================================================
